---- MODULE Spec2Model ----
(***************************************************************************)
(* DynArray<T, Alloc> of data_structures/dynamic_array.h, with the         *)
(* allocator of data_structures/dynamic_array.cpp, as a state machine.     *)
(*                                                                         *)
(* The state is a small set of DynArray objects, the allocator's heap,     *)
(* and a record of the last public operation: what it returned, which      *)
(* allocator calls it made and which error callbacks it invoked.           *)
(*                                                                         *)
(* size_t is modelled as an unsigned integer of SizeBits bits.             *)
(* An access outside an allocation is undefined behaviour: the operation   *)
(* that does it completes as the code is written (its stores to the        *)
(* object's own fields happen, the store outside the buffer lands in no    *)
(* buffer) and the violation is recorded in `fault`. `fault` also records  *)
(* an allocated block left with no pointer to it. The model follows the    *)
(* program up to its first fault.                                          *)
(***************************************************************************)
EXTENDS Integers, Sequences, FiniteSets, TLC

VARIABLES objs, heap, last, ar, fault

vars == <<objs, heap, last, ar, fault>>

---------------------------------------------------------------------------
(* Bounds of the model *)

\* add is offered while count is below MaxN
MaxN == 2
\* in SpecSeq, add is offered while count is below MaxLen
MaxLen == 4
\* number of blocks the objects of the program can hold at a time
MaxBufs == 2
\* the allocator refuses requests of more than MaxSlots elements
MaxSlots == 16
\* width of size_t
SizeBits == 5

SizeMod == 2 ^ SizeBits

\* the DynArray variables of the program
Objs == {"dyn", "dyn2"}
\* element values (T = int)
Elems == {1, 2}
\* capacities handed to setCapacity
Caps == {0, 1, 2}
\* contexts a caller installs with setErrorCb
Ctxs == {"ctx"}
\* start and count arguments handed to the range operations; SizeMod - 1 is
\* SIZE_MAX
Idx == {0, 1, 2, SizeMod - 1}
\* values handed to binarySearch: the elements, one below and one above
Keys == {0, 1, 2, 3}
\* converters handed to convertAll (U = T), each as its table
Convs == [Elems -> Elems]
\* predicates handed to the searches, each as its truth table
Preds == [Elems -> BOOLEAN]
\* ranges handed to addRange
Ranges == {<< >>, <<1>>, <<2, 1>>}

---------------------------------------------------------------------------
(* Constants of the program *)

nullptr == 0
\* first allocation of ensureSize
FirstAlloc == 8
\* a slot holding no live element
Raw == 0
\* the default errorCb, [](DynArrayError, void*){}
NoopCb == "noop"
\* the callback a caller installs
UserCb == "errorCallback"

---------------------------------------------------------------------------
(* The allocator: malloc / realloc / free over element slots *)

FreeBlock == [live |-> FALSE, size |-> 0, data |-> << >>]

RawSlots(k) == [i \in 1..k |-> Raw]

FreeIds(h) == {b \in DOMAIN h : ~h[b].live}

MinOf(S) == CHOOSE x \in S : \A y \in S : x <= y

\* allocate(n): a fresh block of n raw slots, or null. malloc(0) may give
\* either; `ok` is the allocator's choice.
allocate(h, k, ok) ==
    IF ~ok \/ FreeIds(h) = {} \/ k > MaxSlots
    THEN [ptr |-> nullptr, heap |-> h]
    ELSE LET b == MinOf(FreeIds(h))
         IN  [ptr |-> b,
              heap |-> [h EXCEPT ![b] = [live |-> TRUE, size |-> k,
                                         data |-> RawSlots(k)]]]

\* reallocate(buf, n): realloc. On null buf it is allocate(n). On success the
\* block has n slots, the first min(old, n) keep their contents. A failed
\* reallocate leaves the block as it was. No caller keeps the old pointer
\* after a success, so the block keeps its name.
reallocate(h, buf, k, ok) ==
    IF buf = nullptr THEN allocate(h, k, ok)
    ELSE IF ~ok \/ k > MaxSlots
    THEN [ptr |-> nullptr, heap |-> h]
    ELSE LET old == h[buf].data
         IN  [ptr |-> buf,
              heap |-> [h EXCEPT ![buf] =
                          [live |-> TRUE, size |-> k,
                           data |-> [i \in 1..k |->
                                       IF i <= Len(old) THEN old[i] ELSE Raw]]]]

deallocate(h, buf) == [h EXCEPT ![buf] = FreeBlock]


---------------------------------------------------------------------------
(* DynArray: fields and private helpers *)

\* the member initialisers: buf = nullptr, n = 0, nAllocd = 0, alive = true,
\* errorCb = no-op, errorCbCtx = nullptr. `ator` is a stateless by-value
\* member (struct Alloc has no fields) and is left out.
Fresh == [made |-> TRUE, buf |-> nullptr, n |-> 0, nAllocd |-> 0,
          alive |-> TRUE, errorCb |-> NoopCb, errorCbCtx |-> "nullptr"]

NoObj == [Fresh EXCEPT !.made = FALSE]

\* an allocator call and whether it returned null
Call(f, ptr) == [f |-> f, null |-> ptr = nullptr]

Note(c, err) == [cb |-> c.errorCb, err |-> err, ctx |-> c.errorCbCtx]

\* the elements of c as stored in its buffer, slots [0, n)
Elements(c, h) ==
    IF c.buf = nullptr THEN << >>
    ELSE [i \in 1..c.n |-> IF i <= Len(h[c.buf].data) THEN h[c.buf].data[i] ELSE Raw]

\* slots actually allocated behind c.buf
Slots(c, h) == IF c.buf = nullptr \/ ~h[c.buf].live THEN 0 ELSE h[c.buf].size

\* constructFrom without the reset of nAllocd and n on the failure path
constructFrom_keepsCounts(self, arr, h, ok) ==
    LET a == allocate(h, arr.n, ok)
    IN  IF a.ptr = nullptr
        THEN [obj |-> [self EXCEPT !.buf = nullptr, !.alive = FALSE,
                                   !.nAllocd = arr.nAllocd, !.n = arr.n],
              heap |-> a.heap, ret |-> -1, calls |-> <<Call("allocate", a.ptr)>>,
              notes |-> <<Note(self, "ALLOCATION_FAILURE")>>, fault |-> "none"]
        ELSE [obj |-> [self EXCEPT !.nAllocd = arr.nAllocd, !.n = arr.n,
                                   !.buf = a.ptr,
                                   !.errorCb = arr.errorCb,
                                   !.errorCbCtx = arr.errorCbCtx],
              heap |-> [a.heap EXCEPT ![a.ptr].data = Elements(arr, h)],
              ret |-> 0, calls |-> <<Call("allocate", a.ptr)>>, notes |-> << >>,
              fault |-> "none"]

constructFrom(self, arr, h, ok) ==
    LET a == allocate(h, arr.n, ok)
    IN  IF a.ptr = nullptr
        THEN [obj |-> [self EXCEPT !.buf = nullptr, !.alive = FALSE,
                                   !.nAllocd = 0, !.n = 0],
              heap |-> a.heap, ret |-> -1, calls |-> <<Call("allocate", a.ptr)>>,
              notes |-> <<Note(self, "ALLOCATION_FAILURE")>>, fault |-> "none"]
        ELSE [obj |-> [self EXCEPT !.nAllocd = arr.nAllocd, !.n = arr.n,
                                   !.buf = a.ptr,
                                   !.errorCb = arr.errorCb,
                                   !.errorCbCtx = arr.errorCbCtx],
              heap |-> [a.heap EXCEPT ![a.ptr].data = Elements(arr, h)],
              ret |-> 0, calls |-> <<Call("allocate", a.ptr)>>, notes |-> << >>,
              fault |-> "none"]

\* moveFrom that leaves arr.buf set
moveFrom_keepsDonorBuf(self, arr) ==
    [self |-> [self EXCEPT !.n = arr.n, !.nAllocd = arr.nAllocd,
                           !.buf = arr.buf, !.alive = arr.alive,
                           !.errorCb = arr.errorCb,
                           !.errorCbCtx = arr.errorCbCtx],
     arr  |-> [arr EXCEPT !.n = 0, !.nAllocd = 0]]

\* moveFrom: the pair (this, arr) after the move
moveFrom(self, arr) ==
    [self |-> [self EXCEPT !.n = arr.n, !.nAllocd = arr.nAllocd,
                           !.buf = arr.buf, !.alive = arr.alive,
                           !.errorCb = arr.errorCb,
                           !.errorCbCtx = arr.errorCbCtx],
     arr  |-> [arr EXCEPT !.n = 0, !.nAllocd = 0, !.buf = nullptr]]

destruct(self, h) ==
    [heap |-> IF self.buf # nullptr THEN deallocate(h, self.buf) ELSE h,
     calls |-> IF self.buf # nullptr THEN <<Call("deallocate", self.buf)>>
               ELSE << >>]

RECURSIVE Doubled(_, _)
\* while (newAllocd < newN) newAllocd *= 2;
Doubled(newAllocd, newN) ==
    IF newAllocd < newN THEN Doubled((newAllocd * 2) % SizeMod, newN)
    ELSE newAllocd

\* ensureSize storing newBuf into buf before the null check
ensureSize_storesFirst(self, h, newN, ok) ==
    IF self.nAllocd > newN
    THEN [obj |-> self, heap |-> h, ret |-> 0, calls |-> << >>, notes |-> << >>]
    ELSE LET newAllocd == Doubled(IF self.nAllocd = 0 THEN FirstAlloc
                                  ELSE self.nAllocd, newN)
             r == reallocate(h, self.buf, newAllocd, ok)
         IN  IF r.ptr = nullptr
             THEN [obj |-> [self EXCEPT !.buf = r.ptr], heap |-> r.heap,
                   ret |-> -1, calls |-> <<Call("reallocate", r.ptr)>>,
                   notes |-> <<Note(self, "ALLOCATION_FAILURE")>>]
             ELSE [obj |-> [self EXCEPT !.buf = r.ptr, !.nAllocd = newAllocd],
                   heap |-> r.heap, ret |-> 0,
                   calls |-> <<Call("reallocate", r.ptr)>>, notes |-> << >>]

ensureSize(self, h, newN, ok) ==
    IF self.nAllocd > newN
    THEN [obj |-> self, heap |-> h, ret |-> 0, calls |-> << >>, notes |-> << >>]
    ELSE LET newAllocd == Doubled(IF self.nAllocd = 0 THEN FirstAlloc
                                  ELSE self.nAllocd, newN)
             r == reallocate(h, self.buf, newAllocd, ok)
         IN  IF r.ptr = nullptr
             THEN [obj |-> self, heap |-> r.heap, ret |-> -1,
                   calls |-> <<Call("reallocate", r.ptr)>>,
                   notes |-> <<Note(self, "ALLOCATION_FAILURE")>>]
             ELSE [obj |-> [self EXCEPT !.buf = r.ptr, !.nAllocd = newAllocd],
                   heap |-> r.heap, ret |-> 0,
                   calls |-> <<Call("reallocate", r.ptr)>>, notes |-> << >>]

---------------------------------------------------------------------------
(* DynArray: public operations as functions of (object, heap) *)

add(self, h, elem, ok) ==
    LET e == ensureSize(self, h, (self.n + 1) % SizeMod, ok)
        o == e.obj
        inside == o.n < Slots(o, e.heap)
    IN  IF e.ret # 0
        THEN [obj |-> o, heap |-> e.heap, ret |-> -1, calls |-> e.calls,
              notes |-> e.notes, fault |-> "none"]
        ELSE [obj |-> [o EXCEPT !.n = (o.n + 1) % SizeMod],
              heap |-> IF inside
                       THEN [e.heap EXCEPT ![o.buf].data[o.n + 1] = elem]
                       ELSE e.heap,
              ret |-> 0, calls |-> e.calls, notes |-> e.notes,
              fault |-> IF inside THEN "none" ELSE "store outside buffer"]

\* setCapacity refusing newCapacity = n as well
setCapacity_strict(self, h, newCapacity, ok) ==
    IF newCapacity <= self.n
    THEN [obj |-> self, heap |-> h, ret |-> -1, calls |-> << >>,
          notes |-> <<Note(self, "INVALID_CAPACITY")>>]
    ELSE LET r == reallocate(h, self.buf, newCapacity, ok)
         IN  IF r.ptr = nullptr
             THEN [obj |-> self, heap |-> r.heap, ret |-> -1,
                   calls |-> <<Call("reallocate", r.ptr)>>,
                   notes |-> <<Note(self, "ALLOCATION_FAILURE")>>]
             ELSE [obj |-> [self EXCEPT !.buf = r.ptr, !.nAllocd = newCapacity],
                   heap |-> r.heap, ret |-> 0,
                   calls |-> <<Call("reallocate", r.ptr)>>, notes |-> << >>]

setCapacity(self, h, newCapacity, ok) ==
    IF newCapacity < self.n
    THEN [obj |-> self, heap |-> h, ret |-> -1, calls |-> << >>,
          notes |-> <<Note(self, "INVALID_CAPACITY")>>]
    ELSE LET r == reallocate(h, self.buf, newCapacity, ok)
         IN  IF r.ptr = nullptr
             THEN [obj |-> self, heap |-> r.heap, ret |-> -1,
                   calls |-> <<Call("reallocate", r.ptr)>>,
                   notes |-> <<Note(self, "ALLOCATION_FAILURE")>>]
             ELSE [obj |-> [self EXCEPT !.buf = r.ptr, !.nAllocd = newCapacity],
                   heap |-> r.heap, ret |-> 0,
                   calls |-> <<Call("reallocate", r.ptr)>>, notes |-> << >>]

\* clear: ~T() on slots [0, n), then n = 0
clear(self, h) ==
    [obj |-> [self EXCEPT !.n = 0],
     heap |-> IF self.buf = nullptr THEN h
              ELSE [h EXCEPT ![self.buf].data =
                      [i \in 1..Len(@) |-> IF i <= self.n THEN Raw ELSE @[i]]]]

\* getRange: the returned object. `range` is the local the function fills
\* and returns; DynArray() is returned on the two failure paths, where
\* `range` holds no buffer when it is destroyed.
getRange(self, h, start, count, ok) ==
    LET end == (start + count) % SizeMod
        sc == setCapacity(Fresh, h, count, ok)
        src == IF self.buf = nullptr THEN << >> ELSE h[self.buf].data
    IN  IF start >= self.n \/ end > self.n
        THEN [obj |-> Fresh, heap |-> h, calls |-> << >>,
              notes |-> <<Note(self, "INDEX_OUT_OF_RANGE")>>]
        ELSE IF sc.ret # 0
        THEN [obj |-> Fresh, heap |-> sc.heap, calls |-> sc.calls,
              notes |-> sc.notes]
        ELSE [obj |-> [sc.obj EXCEPT !.n = count],
              heap |-> [sc.heap EXCEPT ![sc.obj.buf].data =
                          [j \in 1..count |->
                             IF start + j <= end /\ start + j <= Len(src)
                             THEN src[start + j] ELSE Raw]],
              calls |-> sc.calls, notes |-> sc.notes]

\* convertAll asking for as many slots as the source holds elements
convertAll_fitsCount(self, h, c, ok) ==
    LET sc == setCapacity([Fresh EXCEPT !.errorCb = self.errorCb], h, self.n, ok)
    IN  IF sc.ret # 0
        THEN [obj |-> Fresh, heap |-> sc.heap, calls |-> sc.calls,
              notes |-> sc.notes \o <<Note(self, "ALLOCATION_FAILURE")>>,
              fault |-> "none"]
        ELSE [obj |-> [sc.obj EXCEPT !.n = self.n],
              heap |-> [sc.heap EXCEPT ![sc.obj.buf].data =
                          [i \in 1..Len(@) |->
                             IF i <= self.n THEN c[Elements(self, h)[i]]
                             ELSE @[i]]],
              calls |-> sc.calls, notes |-> sc.notes, fault |-> "none"]

\* convertAll: the returned object. newArray takes the callback, not the
\* context; DynArray() is returned when its setCapacity fails.
convertAll(self, h, c, ok) ==
    LET sc == setCapacity([Fresh EXCEPT !.errorCb = self.errorCb], h,
                          self.nAllocd, ok)
    IN  IF sc.ret # 0
        THEN [obj |-> Fresh, heap |-> sc.heap, calls |-> sc.calls,
              notes |-> sc.notes \o <<Note(self, "ALLOCATION_FAILURE")>>,
              fault |-> "none"]
        ELSE [obj |-> [sc.obj EXCEPT !.n = self.n],
              heap |-> [sc.heap EXCEPT ![sc.obj.buf].data =
                          [i \in 1..Len(@) |->
                             IF i <= self.n THEN c[Elements(self, h)[i]]
                             ELSE @[i]]],
              calls |-> sc.calls, notes |-> sc.notes,
              fault |-> IF self.n > Slots(sc.obj, sc.heap)
                        THEN "store outside buffer" ELSE "none"]

RECURSIVE Collect(_, _, _, _, _, _, _)
\* for (size_t i = 0; i < n; i++) if (p(buf[i])) if (array.add(buf[i])) return
\* DynArray();   array and h are the local `array` and the heap, calls the
\* allocator calls made so far. ok is the allocator's answer during this
\* call: with fewer than FirstAlloc matches only the first add reaches the
\* allocator. a is the outcome of the add of this pass.
Collect(array, h, calls, e, i, p, ok) ==
    IF i > Len(e)
    THEN [obj |-> array, heap |-> h, calls |-> calls, notes |-> << >>,
          fault |-> "none", failed |-> FALSE]
    ELSE IF ~p[e[i]]
    THEN Collect(array, h, calls, e, i + 1, p, ok)
    ELSE CHOOSE st \in
           { IF a.ret # 0 \/ a.fault # "none"
             THEN [obj |-> a.obj, heap |-> a.heap, calls |-> calls \o a.calls,
                   notes |-> a.notes, fault |-> a.fault, failed |-> a.ret # 0]
             ELSE Collect(a.obj, a.heap, calls \o a.calls, e, i + 1, p, ok)
             : a \in {add(array, h, e[i], ok)} } : TRUE

\* findAll: the returned object. `array` takes the callback, not the
\* context; when an add fails DynArray() is returned and `array` is destroyed.
\* st is `array`, the heap and the calls when the loop is left.
findAll(self, h, p, ok) ==
    CHOOSE r \in
      { IF st.failed
        THEN [obj |-> Fresh, heap |-> destruct(st.obj, st.heap).heap,
              calls |-> st.calls \o destruct(st.obj, st.heap).calls,
              notes |-> st.notes, fault |-> st.fault]
        ELSE [obj |-> st.obj, heap |-> st.heap, calls |-> st.calls,
              notes |-> st.notes, fault |-> st.fault]
        : st \in {Collect([Fresh EXCEPT !.errorCb = self.errorCb], h, << >>,
                          Elements(self, h), 1, p, ok)} } : TRUE

RECURSIVE FirstFrom(_, _, _, _)
\* for (size_t i = start; i < end; i++) if (p(buf[i])) return i;  return -1;
FirstFrom(e, i, end, p) ==
    IF i < end
    THEN IF p[e[i + 1]] THEN i ELSE FirstFrom(e, i + 1, end, p)
    ELSE -1

\* findIndex(start, count, p)
findIndex(self, h, start, count, p) ==
    LET end == (start + count) % SizeMod
    IN  IF start >= self.n \/ end > self.n
        THEN [ret |-> -1, notes |-> <<Note(self, "INDEX_OUT_OF_RANGE")>>]
        ELSE [ret |-> FirstFrom(Elements(self, h), start, end, p),
              notes |-> << >>]

\* findIndex(start, p)
findIndexFrom(self, h, start, p) ==
    findIndex(self, h, start, (self.n - start) % SizeMod, p)

\* findIndex(p) without its test for the empty container
findIndexAll_unguarded(self, h, p) == findIndex(self, h, 0, self.n, p)

\* findIndex(p)
findIndexAll(self, h, p) ==
    IF self.n = 0 THEN [ret |-> -1, notes |-> << >>]
    ELSE findIndex(self, h, 0, self.n, p)

RECURSIVE LastBelow(_, _, _)
\* size_t i = end;  while (i --> 0) if (p(buf[i])) return i;  return -1;
LastBelow(e, i, p) ==
    IF i > 0
    THEN IF p[e[i]] THEN i - 1 ELSE LastBelow(e, i - 1, p)
    ELSE -1

\* findLastIndex(start, count, p)
findLastIndex(self, h, start, count, p) ==
    LET end == (start + count) % SizeMod
    IN  IF start >= self.n \/ end > self.n
        THEN [ret |-> -1, notes |-> <<Note(self, "INDEX_OUT_OF_RANGE")>>]
        ELSE [ret |-> LastBelow(Elements(self, h), end, p), notes |-> << >>]

\* findLastIndex(start, p)
findLastIndexFrom(self, h, start, p) ==
    findLastIndex(self, h, start, (self.n - start) % SizeMod, p)

\* findLastIndex(p)
findLastIndexAll(self, h, p) ==
    IF self.n = 0 THEN [ret |-> -1, notes |-> << >>]
    ELSE findLastIndex(self, h, 0, self.n, p)

RECURSIVE Probe(_, _, _, _, _)
\* while (left <= right) { mid = (left + right) / 2; c(elem, buf[mid]) ... }
\* left, right and mid are size_t. buf[mid] with mid at or beyond the count
\* reads no element of the container.
Probe(e, left, right, elem, probes) ==
    IF left <= right
    THEN LET mid == ((left + right) % SizeMod) \div 2
             seen == Append(probes, mid)
         IN  IF mid >= Len(e)
             THEN [ret |-> FALSE, probes |-> seen,
                   fault |-> "read outside elements"]
             ELSE IF elem = e[mid + 1]
             THEN [ret |-> TRUE, probes |-> seen, fault |-> "none"]
             ELSE IF elem < e[mid + 1]
             THEN Probe(e, left, (mid - 1) % SizeMod, elem, seen)
             ELSE Probe(e, (mid + 1) % SizeMod, right, elem, seen)
    ELSE [ret |-> FALSE, probes |-> probes, fault |-> "none"]

\* binarySearch<Compare>(start, length, elem), Compare being the three-way
\* comparison built from == and <
binarySearch(self, h, start, length, elem) ==
    LET left == start
        right == (start + length - 1) % SizeMod
    IN  IF left >= self.n \/ right >= self.n
        THEN [ret |-> FALSE, notes |-> <<Note(self, "INDEX_OUT_OF_RANGE")>>,
              probes |-> << >>, fault |-> "none"]
        ELSE LET r == Probe(Elements(self, h), left, right, elem, << >>)
             IN  [ret |-> r.ret, notes |-> << >>, probes |-> r.probes,
                  fault |-> r.fault]

\* binarySearch(elem)
binarySearchAll(self, h, elem) == binarySearch(self, h, 0, self.n, elem)

---------------------------------------------------------------------------
(* The state machine *)

\* allocated blocks that no object of os points at
Unreachable(os, h) ==
    {b \in DOMAIN h : h[b].live /\ \A o \in Objs : ~(os[o].made /\ os[o].buf = b)}

Op(op, self, other, arg, ret, calls, notes) ==
    [op |-> op, self |-> self, other |-> other, arg |-> arg, ret |-> ret,
     calls |-> calls, notes |-> notes, probes |-> << >>]

NoOp == Op("none", "dyn", "dyn", 0, 0, << >>, << >>)

NoLoop == [active |-> FALSE, self |-> "dyn", range |-> << >>, current |-> 1, n0 |-> 0]

Init ==
    /\ objs = [o \in Objs |-> NoObj]
    /\ heap = [b \in 1..MaxBufs |-> FreeBlock]
    /\ last = NoOp
    /\ ar = NoLoop
    /\ fault = "none"

\* the program is between two public calls, the result of the previous one
\* consumed
Idle == fault = "none" /\ ~ar.active /\ last.op = "none"

\* the caller has looked at the result and the reported error and goes on
\* (theError = DynArrayError::OK;)
Return ==
    /\ fault = "none" /\ ~ar.active /\ last.op # "none"
    /\ last' = NoOp
    /\ ar' = NoLoop
    /\ UNCHANGED <<objs, heap, fault>>

\* List<int> o;
DefaultCtor(o) ==
    /\ Idle /\ ~objs[o].made
    /\ objs' = [objs EXCEPT ![o] = Fresh]
    /\ last' = Op("DynArray()", o, o, 0, 0, << >>, << >>)
    /\ UNCHANGED <<heap, ar, fault>>

\* ~DynArray()
Dtor(o) ==
    /\ Idle /\ objs[o].made
    /\ LET d == destruct(objs[o], heap)
       IN  /\ heap' = d.heap
           /\ last' = Op("~DynArray", o, o, 0, 0, d.calls, << >>)
    /\ objs' = [objs EXCEPT ![o] = NoObj]
    /\ UNCHANGED <<ar, fault>>

\* o.setErrorCb(errorCallback, ctx)
SetErrorCb(o) ==
    /\ Idle /\ objs[o].made
    /\ \E ctx \in Ctxs :
         /\ objs' = [objs EXCEPT ![o].errorCb = UserCb, ![o].errorCbCtx = ctx]
         /\ last' = Op("setErrorCb", o, o, 0, 0, << >>, << >>)
    /\ UNCHANGED <<heap, ar, fault>>

\* o.add(elem), offered while count is below limit
AddWithin(o, limit) ==
    /\ Idle /\ objs[o].made /\ objs[o].n < limit
    /\ \E elem \in Elems, ok \in BOOLEAN :
         LET r == add(objs[o], heap, elem, ok)
         IN  /\ objs' = [objs EXCEPT ![o] = r.obj]
             /\ heap' = r.heap
             /\ fault' = r.fault
             /\ last' = Op("add", o, o, elem, r.ret, r.calls, r.notes)
    /\ UNCHANGED ar

Add(o) == AddWithin(o, MaxN)

\* o.setCapacity(k)
SetCapacity(o) ==
    /\ Idle /\ objs[o].made
    /\ \E k \in Caps, ok \in BOOLEAN :
         LET r == setCapacity(objs[o], heap, k, ok)
         IN  /\ objs' = [objs EXCEPT ![o] = r.obj]
             /\ heap' = r.heap
             /\ last' = Op("setCapacity", o, o, k, r.ret, r.calls, r.notes)
    /\ UNCHANGED <<ar, fault>>

\* o.clear()
Clear(o) ==
    /\ Idle /\ objs[o].made
    /\ LET r == clear(objs[o], heap)
       IN  /\ objs' = [objs EXCEPT ![o] = r.obj]
           /\ heap' = r.heap
    /\ last' = Op("clear", o, o, 0, 0, << >>, << >>)
    /\ UNCHANGED <<ar, fault>>

\* List<int> o = s;
CopyCtor(o, s) ==
    /\ Idle /\ ~objs[o].made /\ objs[s].made /\ o # s
    /\ \E ok \in BOOLEAN :
         LET r == constructFrom(Fresh, objs[s], heap, ok)
         IN  /\ objs' = [objs EXCEPT ![o] = r.obj]
             /\ heap' = r.heap
             /\ last' = Op("DynArray(const&)", o, s, 0, r.ret, r.calls, r.notes)
    /\ UNCHANGED <<ar, fault>>

\* o = s;  The function has no return statement on the copying path, so the
\* reference it returns there is indeterminate ("undef").
CopyAssign(o, s) ==
    /\ Idle /\ objs[o].made /\ objs[s].made
    /\ IF o = s
       THEN /\ last' = Op("operator=(const&)", o, s, 0, "self", << >>, << >>)
            /\ UNCHANGED <<objs, heap>>
       ELSE \E ok \in BOOLEAN :
              LET d == destruct(objs[o], heap)
                  r == constructFrom(objs[o], objs[s], d.heap, ok)
              IN  /\ objs' = [objs EXCEPT ![o] = r.obj]
                  /\ heap' = r.heap
                  /\ last' = Op("operator=(const&)", o, s, 0, "undef",
                                d.calls \o r.calls, r.notes)
    /\ UNCHANGED <<ar, fault>>

\* List<int> o = std::move(s);
MoveCtor(o, s) ==
    /\ Idle /\ ~objs[o].made /\ objs[s].made /\ o # s
    /\ LET m == moveFrom(Fresh, objs[s])
       IN  objs' = [objs EXCEPT ![o] = m.self, ![s] = m.arr]
    /\ last' = Op("DynArray(&&)", o, s, 0, 0, << >>, << >>)
    /\ UNCHANGED <<heap, ar, fault>>

\* o = std::move(s);  As CopyAssign, no return statement on the moving path.
\* moveFrom overwrites this->buf without releasing it: a block that was
\* allocated and that no object points at any more is lost, which `fault`
\* records.
MoveAssign(o, s) ==
    /\ Idle /\ objs[o].made /\ objs[s].made
    /\ IF o = s
       THEN /\ last' = Op("operator=(&&)", o, s, 0, "self", << >>, << >>)
            /\ UNCHANGED <<objs, fault>>
       ELSE LET m == moveFrom(objs[o], objs[s])
                os == [objs EXCEPT ![o] = m.self, ![s] = m.arr]
            IN  /\ objs' = os
                /\ fault' = IF Unreachable(os, heap) # {} THEN "block lost"
                             ELSE "none"
                /\ last' = Op("operator=(&&)", o, s, 0, "undef", << >>, << >>)
    /\ UNCHANGED <<heap, ar>>

\* List<int> o = s.getRange(start, count);
GetRange(o, s) ==
    /\ Idle /\ ~objs[o].made /\ objs[s].made /\ o # s
    /\ \E start \in Idx, count \in Idx, ok \in BOOLEAN :
         LET r == getRange(objs[s], heap, start, count, ok)
         IN  /\ objs' = [objs EXCEPT ![o] = r.obj]
             /\ heap' = r.heap
             /\ last' = Op("getRange", s, o, <<start, count>>, r.obj.n,
                           r.calls, r.notes)
    /\ UNCHANGED <<ar, fault>>

Next ==
    \/ Return
    \/ \E o \in Objs : DefaultCtor(o)
    \/ \E o \in Objs : Dtor(o)
    \/ \E o \in Objs : SetErrorCb(o)
    \/ \E o \in Objs : Add(o)
    \/ \E o \in Objs : SetCapacity(o)
    \/ \E o \in Objs : Clear(o)
    \/ \E o, s \in Objs : CopyCtor(o, s)
    \/ \E o, s \in Objs : CopyAssign(o, s)
    \/ \E o, s \in Objs : MoveCtor(o, s)
    \/ \E o, s \in Objs : MoveAssign(o, s)
    \/ \E o, s \in Objs : GetRange(o, s)

Spec == Init /\ [][Next]_vars

---------------------------------------------------------------------------
(* Two objects: a source and the object made from it by convertAll, *)
(* findAll, getRange or copy construction                           *)

\* DynArray<U, UAlloc> o = s.convertAll<U>(c, ualloc)
ConvertAll(o, s) ==
    /\ Idle /\ ~objs[o].made /\ objs[s].made /\ o # s
    /\ \E c \in Convs, ok \in BOOLEAN :
         LET r == convertAll(objs[s], heap, c, ok)
         IN  /\ objs' = [objs EXCEPT ![o] = r.obj]
             /\ heap' = r.heap
             /\ fault' = r.fault
             /\ last' = Op("convertAll", s, o, <<c>>, r.obj.n, r.calls, r.notes)
    /\ UNCHANGED ar

\* DynArray<T, Alloc> o = s.findAll(p, alloc)
FindAll(o, s) ==
    /\ Idle /\ ~objs[o].made /\ objs[s].made /\ o # s
    /\ \E p \in Preds, ok \in BOOLEAN :
         LET r == findAll(objs[s], heap, p, ok)
         IN  /\ objs' = [objs EXCEPT ![o] = r.obj]
             /\ heap' = r.heap
             /\ fault' = r.fault
             /\ last' = Op("findAll", s, o, <<p>>, r.obj.n, r.calls, r.notes)
    /\ UNCHANGED ar

ConvNext ==
    \/ Return
    \/ \E o \in Objs : DefaultCtor(o)
    \/ \E o \in Objs : Dtor(o)
    \/ \E o \in Objs : SetErrorCb(o)
    \/ \E o \in Objs : Add(o)
    \/ \E o \in Objs : SetCapacity(o)
    \/ \E o \in Objs : Clear(o)
    \/ \E o, s \in Objs : ConvertAll(o, s)
    \/ \E o, s \in Objs : FindAll(o, s)
    \/ \E o, s \in Objs : GetRange(o, s)
    \/ \E o, s \in Objs : CopyCtor(o, s)

SpecConv == Init /\ [][ConvNext]_vars

---------------------------------------------------------------------------
(* One object: the operations on its sequence of elements *)

\* o.addRange(start, end) is entered; range is what [start, end) holds
AddRangeCall(o) ==
    /\ Idle /\ objs[o].made
    /\ \E range \in Ranges :
         /\ objs[o].n + Len(range) <= MaxLen
         /\ ar' = [active |-> TRUE, self |-> o, range |-> range, current |-> 1,
                   n0 |-> objs[o].n]
         /\ last' = Op("addRange", o, o, range, "running", << >>, << >>)
    /\ UNCHANGED <<objs, heap, fault>>

\* for (current = start; start != end; ++current) if (add(*current)) return -1;
\* return 0;   One test of the loop condition and, when it holds, one body.
\* The condition compares start, which never moves, with end. *current with
\* current at end or beyond reads outside the caller's range.
AddRangeIter ==
    /\ ar.active /\ fault = "none"
    /\ IF Len(ar.range) = 0
       THEN /\ ar' = [ar EXCEPT !.active = FALSE]
            /\ last' = [last EXCEPT !.ret = 0]
            /\ UNCHANGED <<objs, heap, fault>>
       ELSE IF ar.current > Len(ar.range)
       THEN /\ fault' = "read outside range"
            /\ UNCHANGED <<objs, heap, last, ar>>
       ELSE \E ok \in BOOLEAN :
              LET r == add(objs[ar.self], heap, ar.range[ar.current], ok)
              IN  /\ objs' = [objs EXCEPT ![ar.self] = r.obj]
                  /\ heap' = r.heap
                  /\ fault' = r.fault
                  /\ IF r.ret # 0
                     THEN /\ ar' = [ar EXCEPT !.active = FALSE]
                          /\ last' = [last EXCEPT !.ret = -1,
                                        !.calls = r.calls, !.notes = r.notes]
                     ELSE /\ ar' = [ar EXCEPT !.current = @ + 1]
                          /\ last' = [last EXCEPT !.calls = r.calls,
                                                  !.notes = r.notes]

\* o.findIndex(start, count, p)
FindIndex(o) ==
    /\ Idle /\ objs[o].made
    /\ \E start \in Idx, count \in Idx, p \in Preds :
         LET r == findIndex(objs[o], heap, start, count, p)
         IN  last' = Op("findIndex(start,count,p)", o, o, <<start, count, p>>,
                        r.ret, << >>, r.notes)
    /\ UNCHANGED <<objs, heap, ar, fault>>

\* o.findIndex(start, p)
FindIndexFrom(o) ==
    /\ Idle /\ objs[o].made
    /\ \E start \in Idx, p \in Preds :
         LET r == findIndexFrom(objs[o], heap, start, p)
         IN  last' = Op("findIndex(start,p)", o, o, <<start, p>>,
                        r.ret, << >>, r.notes)
    /\ UNCHANGED <<objs, heap, ar, fault>>

\* o.findIndex(p)
FindIndexAll(o) ==
    /\ Idle /\ objs[o].made
    /\ \E p \in Preds :
         LET r == findIndexAll(objs[o], heap, p)
         IN  last' = Op("findIndex(p)", o, o, <<p>>, r.ret, << >>, r.notes)
    /\ UNCHANGED <<objs, heap, ar, fault>>

\* o.findLastIndex(start, count, p)
FindLastIndex(o) ==
    /\ Idle /\ objs[o].made
    /\ \E start \in Idx, count \in Idx, p \in Preds :
         LET r == findLastIndex(objs[o], heap, start, count, p)
         IN  last' = Op("findLastIndex(start,count,p)", o, o,
                        <<start, count, p>>, r.ret, << >>, r.notes)
    /\ UNCHANGED <<objs, heap, ar, fault>>

\* o.findLastIndex(start, p)
FindLastIndexFrom(o) ==
    /\ Idle /\ objs[o].made
    /\ \E start \in Idx, p \in Preds :
         LET r == findLastIndexFrom(objs[o], heap, start, p)
         IN  last' = Op("findLastIndex(start,p)", o, o, <<start, p>>,
                        r.ret, << >>, r.notes)
    /\ UNCHANGED <<objs, heap, ar, fault>>

\* o.findLastIndex(p)
FindLastIndexAll(o) ==
    /\ Idle /\ objs[o].made
    /\ \E p \in Preds :
         LET r == findLastIndexAll(objs[o], heap, p)
         IN  last' = Op("findLastIndex(p)", o, o, <<p>>, r.ret, << >>, r.notes)
    /\ UNCHANGED <<objs, heap, ar, fault>>

\* o.binarySearch<Compare>(start, length, elem)
BinarySearch(o) ==
    /\ Idle /\ objs[o].made
    /\ \E start \in Idx, length \in Idx, elem \in Keys :
         LET r == binarySearch(objs[o], heap, start, length, elem)
         IN  /\ last' = [Op("binarySearch(start,length,elem)", o, o,
                            <<start, length, elem>>, r.ret, << >>, r.notes)
                           EXCEPT !.probes = r.probes]
             /\ fault' = r.fault
    /\ UNCHANGED <<objs, heap, ar>>

\* o.binarySearch(elem)
BinarySearchAll(o) ==
    /\ Idle /\ objs[o].made
    /\ \E elem \in Keys :
         LET r == binarySearchAll(objs[o], heap, elem)
         IN  /\ last' = [Op("binarySearch(elem)", o, o, <<elem>>, r.ret,
                            << >>, r.notes)
                           EXCEPT !.probes = r.probes]
             /\ fault' = r.fault
    /\ UNCHANGED <<objs, heap, ar>>

AddSeq == AddWithin("dyn", MaxLen)

SeqNext ==
    \/ Return
    \/ DefaultCtor("dyn")
    \/ Dtor("dyn")
    \/ SetErrorCb("dyn")
    \/ AddSeq
    \/ SetCapacity("dyn")
    \/ Clear("dyn")
    \/ AddRangeCall("dyn")
    \/ AddRangeIter
    \/ FindIndex("dyn")
    \/ FindIndexFrom("dyn")
    \/ FindIndexAll("dyn")
    \/ FindLastIndex("dyn")
    \/ FindLastIndexFrom("dyn")
    \/ FindLastIndexAll("dyn")
    \/ BinarySearch("dyn")
    \/ BinarySearchAll("dyn")

SpecSeq == Init /\ [][SeqNext]_vars

---------------------------------------------------------------------------
(* Properties *)

\* some allocator call of the last operation returned null
AllocatorFailed == \E i \in DOMAIN last.calls : last.calls[i].null

\* C1: every object with capacity > 0 holds a live block of at least
\* `capacity` slots, and no add stores outside the object's block.
C1_CapacityWithinBuffer ==
    /\ \A o \in Objs :
         (objs[o].made /\ objs[o].nAllocd > 0)
             => Slots(objs[o], heap) >= objs[o].nAllocd
    /\ fault # "store outside buffer"

\* C2: a copy construction or copy assignment (from another object) whose
\* allocate returned null leaves the target a zombie: not alive, no buffer,
\* count 0, capacity 0; and ALLOCATION_FAILURE was reported, once, through
\* the observer pair the target held when the allocation failed (the default
\* pair for a copy construction).
C2_CopyFailureLeavesZombie ==
    [][ (/\ last'.op \in {"DynArray(const&)", "operator=(const&)"}
         /\ last'.self # last'.other
         /\ AllocatorFailed')
        => LET c == objs'[last'.self]
               before == IF last'.op = "DynArray(const&)" THEN Fresh
                         ELSE objs[last'.self]
           IN  /\ ~c.alive
               /\ c.buf = nullptr
               /\ c.n = 0
               /\ c.nAllocd = 0
               /\ last'.notes = <<Note(before, "ALLOCATION_FAILURE")>> ]_vars

\* C2 witness: a copy assignment into an object with an installed callback
\* failed to allocate and left it a zombie.
C2_Witness ==
    /\ last.op = "operator=(const&)"
    /\ AllocatorFailed
    /\ ~objs[last.self].alive
    /\ last.notes # << >>
    /\ last.notes[1].cb = UserCb

\* C3: a zombie (isAlive() false) has count 0, capacity 0 and no buffer,
\* whatever operations were applied to it since it became one.
C3_ZombieStaysEmpty ==
    \A o \in Objs :
        (objs[o].made /\ ~objs[o].alive)
            => (objs[o].n = 0 /\ objs[o].nAllocd = 0 /\ objs[o].buf = nullptr)

C5_NoBlockLost ==
    /\ Unreachable(objs, heap) = {}
    /\ fault # "block lost"

\* C6: setCapacity(k) on an alive object. With k >= count and reallocate
\* not returning null: returns 0, capacity is k, count and elements are
\* kept, nothing is reported. With k < count: returns -1, reports
\* INVALID_CAPACITY once, calls the allocator not at all, and leaves the
\* object and the heap as they were.
C6_SetCapacity ==
    [][ (last'.op = "setCapacity" /\ objs[last'.self].alive)
        => LET k == last'.arg
               c == objs[last'.self]
               d == objs'[last'.self]
           IN  IF k >= c.n
               THEN ~AllocatorFailed'
                    => /\ last'.ret = 0
                       /\ d.nAllocd = k
                       /\ d.n = c.n
                       /\ Elements(d, heap') = Elements(c, heap)
                       /\ last'.notes = << >>
               ELSE /\ last'.ret = -1
                    /\ last'.notes = <<Note(c, "INVALID_CAPACITY")>>
                    /\ last'.calls = << >>
                    /\ d = c
                    /\ heap' = heap ]_vars

\* C6 witness: setCapacity(count) succeeded on an object holding elements.
C6_Witness ==
    /\ last.op = "setCapacity"
    /\ last.ret = 0
    /\ objs[last.self].alive
    /\ objs[last.self].n > 0
    /\ last.arg = objs[last.self].n

\* C7: when the allocator returns null during add, setCapacity or getRange,
\* add and setCapacity return -1, getRange returns an empty object, and the
\* object the operation was called on and the heap are as before.
C7_AllocFailureLeavesUnchanged ==
    [][ (last'.op \in {"add", "setCapacity", "getRange"} /\ AllocatorFailed')
        => /\ objs'[last'.self] = objs[last'.self]
           /\ heap' = heap
           /\ last'.op \in {"add", "setCapacity"} => last'.ret = -1
           /\ last'.op = "getRange"
                => (objs'[last'.other].n = 0 /\ objs'[last'.other].buf = nullptr)
      ]_vars

\* C7 witness: an add on an object holding elements failed to allocate.
C7_Witness ==
    /\ last.op = "add"
    /\ last.ret = -1
    /\ AllocatorFailed
    /\ objs[last.self].n > 0

\* C8: a successful add(elem) on an object with count c and elements S
\* gives count c + 1, capacity >= count, and elements S followed by elem,
\* each in a slot of the object's block.
C8_AddAppends ==
    [][ (last'.op = "add" /\ last'.ret = 0)
        => LET c == objs[last'.self]
               d == objs'[last'.self]
           IN  /\ d.n = c.n + 1
               /\ d.nAllocd >= d.n
               /\ Slots(d, heap') >= d.n
               /\ Elements(d, heap') = Append(Elements(c, heap), last'.arg)
      ]_vars

\* C9: addRange over a range of k elements reads no element outside the
\* range; when it has returned 0 the object holds its former elements
\* followed by the k elements of the range, in order; when it has returned
\* -1 the append that failed was the first to fail and the elements before
\* it in the range, and only those, were appended.
C9_AddRange ==
    /\ fault # "read outside range"
    /\ (last.op = "addRange" /\ ~ar.active)
          => LET c == objs[last.self]
                 appended == SubSeq(Elements(c, heap), ar.n0 + 1, c.n)
             IN  IF last.ret = 0
                 THEN appended = ar.range
                 ELSE /\ last.ret = -1
                      /\ AllocatorFailed
                      /\ appended = SubSeq(ar.range, 1, ar.current - 1)

\* the indexes of [start, start + count) whose element satisfies p
Matches(e, start, count, p) ==
    {i \in 0..(Len(e) - 1) : start <= i /\ i < start + count /\ p[e[i + 1]]}

\* C10: findIndex(start, count, p) on n elements reports INDEX_OUT_OF_RANGE
\* and returns -1 when start >= n or start + count > n; otherwise it reports
\* nothing and returns the smallest index of [start, start + count) whose
\* element satisfies p, or -1 when there is none. findIndex(start, p)
\* answers as findIndex(start, n - start, p).
C10_FindIndex ==
    /\ last.op = "findIndex(start,count,p)"
          => LET c == objs[last.self]
                 e == Elements(c, heap)
                 start == last.arg[1]
                 count == last.arg[2]
                 M == Matches(e, start, count, last.arg[3])
             IN  IF start >= c.n \/ start + count > c.n
                 THEN /\ last.ret = -1
                      /\ last.notes = <<Note(c, "INDEX_OUT_OF_RANGE")>>
                 ELSE /\ last.notes = << >>
                      /\ last.ret = IF M = {} THEN -1 ELSE MinOf(M)
    /\ last.op = "findIndex(start,p)"
          => LET c == objs[last.self]
                 r == findIndex(c, heap, last.arg[1],
                                (c.n - last.arg[1]) % SizeMod, last.arg[2])
             IN  last.ret = r.ret /\ last.notes = r.notes

\* the largest member of a non-empty set of integers
MaxOf(S) == CHOOSE x \in S : \A y \in S : y <= x

\* C11: findLastIndex(start, count, p) with start < n and start + count <= n
\* returns the largest index of [start, start + count) whose element
\* satisfies p, or -1 when there is none; it returns no index below start.
C11_FindLastIndex ==
    last.op = "findLastIndex(start,count,p)"
       => LET c == objs[last.self]
              start == last.arg[1]
              count == last.arg[2]
              M == Matches(Elements(c, heap), start, count, last.arg[3])
          IN  (start < c.n /\ start + count <= c.n)
                 => /\ last.ret = IF M = {} THEN -1 ELSE MaxOf(M)
                    /\ last.ret = -1 \/ last.ret >= start

\* C12: on an empty container findIndex(p) and findLastIndex(p) return -1
\* and report nothing, while findIndex(0, 0, p), findIndex(0, p),
\* findLastIndex(0, 0, p) and findLastIndex(0, p) return -1 and report
\* INDEX_OUT_OF_RANGE, once, to the installed callback with its context.
C12_EmptySearch ==
    LET c == objs[last.self]
        ranged == {"findIndex(start,count,p)", "findLastIndex(start,count,p)"}
        from == {"findIndex(start,p)", "findLastIndex(start,p)"}
    IN  /\ (last.op \in {"findIndex(p)", "findLastIndex(p)"} /\ c.n = 0)
              => last.ret = -1 /\ last.notes = << >>
        /\ (last.op \in ranged /\ c.n = 0
              /\ last.arg[1] = 0 /\ last.arg[2] = 0)
              => /\ last.ret = -1
                 /\ last.notes = <<Note(c, "INDEX_OUT_OF_RANGE")>>
        /\ (last.op \in from /\ c.n = 0 /\ last.arg[1] = 0)
              => /\ last.ret = -1
                 /\ last.notes = <<Note(c, "INDEX_OUT_OF_RANGE")>>

\* C12 happens: findIndex(p) has answered on an empty container that has a
\* callback installed.
C12_Witness ==
    /\ last.op = "findIndex(p)"
    /\ objs[last.self].n = 0
    /\ objs[last.self].errorCb = UserCb
    /\ last.ret = -1

\* the elements are in ascending order
Sorted(e) == \A i \in 1..(Len(e) - 1) : e[i] <= e[i + 1]

\* C13: on a non-empty container whose elements are sorted ascending,
\* binarySearch(x) reads only elements of the container, reports nothing
\* and returns true exactly when x is among the elements, for x among,
\* below and above the elements.
C13_BinarySearchIff ==
    LET c == objs[last.self]
        e == Elements(c, heap)
    IN  (last.op = "binarySearch(elem)" /\ c.n > 0 /\ Sorted(e))
           => /\ fault = "none"
              /\ last.notes = << >>
              /\ last.ret = (\E i \in 1..Len(e) : e[i] = last.arg[1])

\* C18: binarySearch(start, length, elem) whose range check accepted
\* (start, length) completes, on sorted and unsorted contents alike, having
\* probed only indexes of [start, start + length).
C18_BinarySearchProbes ==
    (last.op = "binarySearch(start,length,elem)" /\ last.notes = << >>)
       => /\ fault = "none"
          /\ \A k \in DOMAIN last.probes :
                /\ last.arg[1] <= last.probes[k]
                /\ last.probes[k] < last.arg[1] + last.arg[2]

\* C14: getRange(s, k) on n elements. With s >= n or s + k > n it reports
\* INDEX_OUT_OF_RANGE and returns an object with count 0. Otherwise, the
\* allocator not returning null, it returns an object with count k and
\* capacity k whose element i is the source's element s + i, and the
\* source is as before.
C14_GetRange ==
    [][ last'.op = "getRange"
        => LET src == objs[last'.self]
               res == objs'[last'.other]
               s == last'.arg[1]
               k == last'.arg[2]
           IN  IF s >= src.n \/ s + k > src.n
               THEN /\ last'.notes = <<Note(src, "INDEX_OUT_OF_RANGE")>>
                    /\ res.n = 0
               ELSE ~AllocatorFailed'
                    => /\ res.n = k
                       /\ res.nAllocd = k
                       /\ Elements(res, heap')
                            = SubSeq(Elements(src, heap), s + 1, s + k)
                       /\ objs'[last'.self] = src
                       /\ Elements(src, heap') = Elements(src, heap)
      ]_vars

\* C15: convertAll with converter f on a source of count c and capacity C,
\* the allocator not returning null, returns an object with count c and
\* capacity C whose element i is f(source element i); the source is as
\* before.
C15_ConvertAll ==
    [][ (last'.op = "convertAll" /\ ~AllocatorFailed')
        => LET src == objs[last'.self]
               res == objs'[last'.other]
               f == last'.arg[1]
               e == Elements(src, heap)
           IN  /\ fault' = "none"
               /\ res.n = src.n
               /\ res.nAllocd = src.nAllocd
               /\ Elements(res, heap') = [i \in 1..src.n |-> f[e[i]]]
               /\ objs'[last'.self] = src
               /\ Elements(src, heap') = e
      ]_vars

\* C15 happens: convertAll with the converter that exchanges 1 and 2
\* returned <<2, 1>> for a source holding <<1, 2>>, in an object whose
\* capacity exceeds its count.
C15_Witness ==
    /\ last.op = "convertAll"
    /\ ~AllocatorFailed
    /\ last.arg[1] = <<2, 1>>
    /\ Elements(objs[last.self], heap) = <<1, 2>>
    /\ Elements(objs[last.other], heap) = <<2, 1>>
    /\ objs[last.other].nAllocd > 2

\* the callback and context installed on c received err during the last
\* operation
Heard(c, err) == \E i \in DOMAIN last.notes : last.notes[i] = Note(c, err)

\* C16: an operation on, or a copy construction from, an object with an
\* installed callback and context that ends in its failure value has called
\* that callback with that context and the matching error: add and
\* setCapacity returning -1 (ALLOCATION_FAILURE when the allocator returned
\* null, INVALID_CAPACITY otherwise); getRange returning an empty object
\* for a range outside the elements (INDEX_OUT_OF_RANGE); getRange,
\* convertAll, findAll and copy construction when the allocator returned
\* null (ALLOCATION_FAILURE).
C16_FailuresReported ==
    LET c == objs[last.self]
        d == objs[last.other]
    IN  /\ (last.op \in {"add", "setCapacity"} /\ c.errorCb = UserCb
              /\ last.ret = -1)
              => Heard(c, IF AllocatorFailed THEN "ALLOCATION_FAILURE"
                          ELSE "INVALID_CAPACITY")
        /\ (last.op = "getRange" /\ c.errorCb = UserCb /\ ~AllocatorFailed
              /\ (last.arg[1] >= c.n \/ last.arg[1] + last.arg[2] > c.n))
              => Heard(c, "INDEX_OUT_OF_RANGE")
        /\ (last.op \in {"getRange", "convertAll", "findAll"}
              /\ c.errorCb = UserCb /\ AllocatorFailed)
              => Heard(c, "ALLOCATION_FAILURE")
        /\ (last.op = "DynArray(const&)" /\ d.errorCb = UserCb
              /\ AllocatorFailed)
              => Heard(d, "ALLOCATION_FAILURE")

RECURSIVE Grown(_, _)
\* the smallest of from, 2 * from, 4 * from, ... that is at least newN
Grown(from, newN) == IF from >= newN THEN from ELSE Grown(2 * from, newN)

\* C17: add on an object with count n and capacity C asks for newN = n + 1
\* slots. With C >= newN it calls the allocator not at all and leaves the
\* capacity C. Otherwise, the allocator not returning null, the capacity
\* becomes the smallest of max(C, 8), 2 * max(C, 8), 4 * max(C, 8), ...
\* that is at least newN.
C17_GrowthPolicy ==
    [][ last'.op = "add"
        => LET c == objs[last'.self]
               d == objs'[last'.self]
               newN == c.n + 1
               from == IF c.nAllocd > FirstAlloc THEN c.nAllocd ELSE FirstAlloc
           IN  IF c.nAllocd >= newN
               THEN last'.calls = << >> /\ d.nAllocd = c.nAllocd
               ELSE ~AllocatorFailed' => d.nAllocd = Grown(from, newN)
      ]_vars

\* C19: in every reachable state an object with capacity 0 holds no
\* buffer; so after setCapacity(0) on an empty object, after copy
\* construction from an empty object and for the object getRange(s, 0)
\* returns.
C19_NoCapacityNoBuffer ==
    \A o \in Objs :
       (objs[o].made /\ objs[o].nAllocd = 0) => objs[o].buf = nullptr

====
